---- MODULE Spec2Model ----
(***************************************************************************)
(* Model of src/command/src/main.rs (lila-docker): the `start` command,    *)
(* from the interactive prompts through the compiled Config, the write of  *)
(* ~/.lila-docker and the four external steps (clone loop, submodule       *)
(* update, docker compose build, ui build).                                *)
(*                                                                         *)
(* A Rust String is modelled as a sequence of text chunks; the characters  *)
(* that matter to the TOML encoding (the double quote and the backslash)   *)
(* are chunks of their own.  format!("{}/{}", a, b) is a \o <<"/">> \o b.  *)
(***************************************************************************)
EXTENDS Naturals, Sequences, FiniteSets

\* Largest number of menu items ticked in the multiselect prompt.
MaxSelected == 2

EmptyString == <<>>
Str(s) == <<s>>
Quote == "\""
Backslash == "\\"

\* const LICHESS_REPOS: [&str; 13]
LICHESS_REPOS ==
  << "lichess-org/lila", "lichess-org/lila-ws", "lichess-org/lila-db-seed",
     "lichess-org/lila-engine", "lichess-org/lila-fishnet", "lichess-org/lila-gif",
     "lichess-org/lila-search", "lichess-org/lifat", "lichess-org/scalachess",
     "lichess-org/api", "lichess-org/pgn-viewer", "lichess-org/chessground",
     "lichess-org/berserk" >>

\* enum ComposeProfile with #[strum(serialize_all = "kebab-case")]: to_string()
ComposeProfileDisplay ==
  [ StockfishPlay |-> "stockfish-play", StockfishAnalysis |-> "stockfish-analysis",
    ExternalEngine |-> "external-engine", Search |-> "search", Gifs |-> "gifs",
    Thumbnails |-> "thumbnails", ApiDocs |-> "api-docs",
    Chessground |-> "chessground", PgnViewer |-> "pgn-viewer" ]

\* enum Repository with #[strum(serialize_all = "kebab-case")]: to_string()
RepositoryDisplay ==
  [ Lila |-> "lila", LilaWs |-> "lila-ws", LilaDbSeed |-> "lila-db-seed",
    Lifat |-> "lifat", LilaFishnet |-> "lila-fishnet", LilaEngine |-> "lila-engine",
    LilaSearch |-> "lila-search", LilaGif |-> "lila-gif", Api |-> "api",
    Chessground |-> "chessground", PgnViewer |-> "pgn-viewer",
    Scalachess |-> "scalachess", Dartchess |-> "dartchess", Berserk |-> "berserk",
    BbpPairings |-> "cyanfish/bbpPairings" ]

\* struct OptionalService: an Option is a sequence of length 0 (None) or 1 (Some).
OptionalService(profile, repositories) ==
  [compose_profile |-> profile, repositories |-> repositories]

\* The items of the multiselect in prompt_for_optional_services, in menu order.
MenuItems ==
  << OptionalService(<<"StockfishPlay">>, << <<"LilaFishnet">> >>),
     OptionalService(<<"StockfishAnalysis">>, <<>>),
     OptionalService(<<"ExternalEngine">>, << <<"LilaEngine">> >>),
     OptionalService(<<"Search">>, << <<"LilaSearch">> >>),
     OptionalService(<<"Gifs">>, << <<"LilaGif">> >>),
     OptionalService(<<"Thumbnails">>, <<>>),
     OptionalService(<<"ApiDocs">>, << <<"Api">> >>),
     OptionalService(<<"Chessground">>, << <<"Chessground">> >>),
     OptionalService(<<"PgnViewer">>, << <<"PgnViewer">> >>),
     OptionalService(<<>>, << <<"Scalachess">> >>),
     OptionalService(<<>>, << <<"Dartchess">> >>),
     OptionalService(<<>>, << <<"Berserk">> >>),
     OptionalService(<<>>, << <<"BbpPairings">> >>) >>

\* home_dir(): Option<PathBuf>; the model's one home directory.
HomeDirs == { <<>>, << <<"/home/dev">> >> }

\* What the user may type at a text prompt: nothing, or a text with the
\* characters TOML has to escape.
TypedTexts == { EmptyString, <<"s3cret", Quote, "x", Backslash>> }
TypedDirs == { EmptyString, <<"/srv/lichess">> }

\* std::process::Command::status(): Err (could not spawn), or Ok(ExitStatus).
StatusResults == {"spawn_err", "exit_zero", "exit_nonzero"}
\* git2 Repository::clone: Ok(repo) or Err(e).
CloneResults == {"clone_ok", "clone_err"}

Steps == {"clone", "submodule", "build", "ui"}

VARIABLES
  pc,             \* position in main/start
  home,           \* what home_dir() returns in this run
  services,       \* let services = prompt_for_optional_services()?
  setup_database, \* let setup_database = confirm(..).interact()?
  typedSu,        \* what the user typed at the two password prompts
  typedPw,        \* (EmptyString: an empty line, or no prompt shown)
  su_password,    \* let (su_password, password) = ..
  password,
  repos_dir,      \* let repos_dir: String = input(..).interact()?
  config,         \* let config = Config { .. }
  file,           \* contents of ~/.lila-docker (<<>>: not written)
  i,              \* index of the clone loop over LICHESS_REPOS (0-based)
  calls,          \* external calls made so far, in order
  lilaClone,      \* result of the clone of lichess-org/lila ("none" before it)
  lastOutcome,    \* what the most recent external call returned
  lastVerdict,    \* the message kind shown for the most recent external call
  failed,         \* steps with an external call that did not succeed
  result,         \* "running", then what main returns: "Ok", "Err", "panic"
  cause           \* why main returned Err

vars == << pc, home, services, setup_database, typedSu, typedPw, su_password, password, repos_dir,
           config, file, i, calls, lilaClone, lastOutcome, lastVerdict, failed,
           result, cause >>

prompted == << services, setup_database, typedSu, typedPw, su_password, password,
              repos_dir >>
pipeline == << i, calls, lilaClone, lastOutcome, lastVerdict, failed >>

\* struct Config before `let config = ..` has run.
NoConfig ==
  [ repos_dir |-> EmptyString, profiles |-> <<>>, setup_database |-> FALSE,
    su_password |-> EmptyString, password |-> EmptyString ]

Init ==
  /\ pc = "main"
  /\ home \in HomeDirs
  /\ services = <<>>
  /\ setup_database = FALSE
  /\ typedSu = EmptyString
  /\ typedPw = EmptyString
  /\ su_password = EmptyString
  /\ password = EmptyString
  /\ repos_dir = EmptyString
  /\ config = NoConfig
  /\ file = <<>>
  /\ i = 0
  /\ calls = <<>>
  /\ lilaClone = "none"
  /\ lastOutcome = "none"
  /\ lastVerdict = "none"
  /\ failed = {}
  /\ result = "running"
  /\ cause = "none"

\* `?` on an Err, or the end of main: main returns.
Return(r, c) ==
  /\ pc' = "done"
  /\ result' = r
  /\ cause' = c

Goto(next) ==
  /\ pc' = next
  /\ UNCHANGED << result, cause >>

\* fn main: args.len() < 2 prints the banner and the usage; "start" runs
\* start()?; anything else prints "Invalid command".
Main ==
  /\ pc = "main"
  /\ \E arg \in {"", "start", "stop"}, termOk \in BOOLEAN :
       CASE arg = "" -> IF termOk THEN Return("Ok", "none") ELSE Return("Err", "terminal")
         [] arg = "start" -> Goto("intro")
         [] OTHER -> Return("Ok", "none")
  /\ UNCHANGED << home, prompted, config, file, pipeline >>

\* intro(BANNER)?;
Intro ==
  /\ pc = "intro"
  /\ \E termOk \in BOOLEAN :
       IF termOk THEN Goto("services") ELSE Return("Err", "terminal")
  /\ UNCHANGED << home, prompted, config, file, pipeline >>

\* The menu items ticked, in menu order (multiselect returns them so).
RECURSIVE Picked(_, _)
Picked(k, ticked) ==
  IF k > Len(MenuItems) THEN <<>>
  ELSE (IF k \in ticked THEN << MenuItems[k] >> ELSE <<>>) \o Picked(k + 1, ticked)

Selections ==
  { Picked(1, ticked) :
      ticked \in { t \in SUBSET (1..Len(MenuItems)) : Cardinality(t) <= MaxSelected } }

\* let services = prompt_for_optional_services()?;
PromptServices ==
  /\ pc = "services"
  /\ \/ /\ \E sel \in Selections : services' = sel
        /\ Goto("confirm")
     \/ /\ Return("Err", "prompt")
        /\ UNCHANGED services
  /\ UNCHANGED << home, setup_database, typedSu, typedPw, su_password, password,
                  repos_dir, config, file, pipeline >>

\* let setup_database = confirm(..).initial_value(true).interact()?;
ConfirmSeed ==
  /\ pc = "confirm"
  /\ \/ /\ \E answer \in BOOLEAN : setup_database' = answer
        /\ Goto("passwords")
     \/ /\ Return("Err", "prompt")
        /\ UNCHANGED setup_database
  /\ UNCHANGED << home, services, typedSu, typedPw, su_password, password,
                  repos_dir, config, file, pipeline >>

\* cliclack input(..).default_input(d).interact(): an empty line yields d.
InputInteract(default, typed) ==
  IF typed = EmptyString THEN default ELSE typed

\* Mutant of PasswordPair: the else branch is lost, so the prompts' defaults
\* are used whatever setup_database is.
PasswordPairAlwaysPrompted(setup, su, pw) ==
  << InputInteract(Str("password"), su), InputInteract(Str("password"), pw) >>

\* let (su_password, password) = if setup_database { (input.., input..) }
\*                               else { (String::from(""), String::from("")) };
PasswordPair(setup, su, pw) ==
  IF setup
  THEN << InputInteract(Str("password"), su), InputInteract(Str("password"), pw) >>
  ELSE << EmptyString, EmptyString >>

ChoosePasswords ==
  /\ pc = "passwords"
  /\ \/ /\ \E su \in TypedTexts, pw \in TypedTexts :
             /\ typedSu' = IF setup_database THEN su ELSE EmptyString
             /\ typedPw' = IF setup_database THEN pw ELSE EmptyString
        /\ su_password' = PasswordPair(setup_database, typedSu', typedPw')[1]
        /\ password' = PasswordPair(setup_database, typedSu', typedPw')[2]
        /\ Goto("repos_dir")
     \/ /\ setup_database
        /\ Return("Err", "prompt")
        /\ UNCHANGED << typedSu, typedPw, su_password, password >>
  /\ UNCHANGED << home, services, setup_database, repos_dir, config, file, pipeline >>

\* PathBuf::join
Join(dir, name) == dir \o <<"/">> \o Str(name)

\* let default_repos_location = home_dir().unwrap().join("lila-docker");
\* let repos_dir: String = input(..).default_input(default).required(true).interact()?;
PromptReposDir ==
  /\ pc = "repos_dir"
  /\ IF home = <<>>
     THEN /\ Return("panic", "none")
          /\ UNCHANGED repos_dir
     ELSE \/ /\ \E typed \in TypedDirs :
                  repos_dir' = InputInteract(Join(home[1], "lila-docker"), typed)
             /\ Goto("config")
          \/ /\ Return("Err", "prompt")
             /\ UNCHANGED repos_dir
  /\ UNCHANGED << home, services, setup_database, typedSu, typedPw, su_password,
                  password, config, file, pipeline >>

Range(seq) == { seq[k] : k \in 1..Len(seq) }

\* The `profiles` that start() reads at the Config construction and at the
\* docker compose build: the profiles of the selected services, None skipped,
\* each under its canonical name, each once.
RECURSIVE Profiles(_)
Profiles(sel) ==
  IF sel = <<>> THEN <<>>
  ELSE LET first == Head(sel)
           rest == Profiles(Tail(sel))
       IN IF first.compose_profile = <<>> THEN rest
          ELSE LET name == ComposeProfileDisplay[first.compose_profile[1]]
               IN IF name \in Range(rest) THEN rest ELSE <<name>> \o rest

\* The repos set of the specification's Configuration: the canonical names of
\* the repositories of the selected services.
ConfigurationRepos(sel) ==
  { RepositoryDisplay[r] :
      r \in UNION { Range(sel[k].repositories[1]) :
                      k \in { j \in 1..Len(sel) : sel[j].repositories # <<>> } } }

\* let config = Config { repos_dir, profiles: profiles.iter().map(|s|
\*   s.to_string()).collect(), setup_database, su_password, password };
MakeConfig(dir, profiles, setup, su, pw) ==
  [ repos_dir |-> dir,
    profiles |-> [k \in 1..Len(profiles) |-> Str(profiles[k])],
    setup_database |-> setup,
    su_password |-> su,
    password |-> pw ]

\* TOML basic string: the text between double quotes, with the double quote
\* and the backslash escaped by a backslash.
RECURSIVE TomlEscape(_)
TomlEscape(text) ==
  IF text = <<>> THEN <<>>
  ELSE (IF Head(text) \in {Quote, Backslash} THEN <<Backslash, Head(text)>>
        ELSE <<Head(text)>>) \o TomlEscape(Tail(text))

TomlString(text) == <<Quote>> \o TomlEscape(text) \o <<Quote>>

RECURSIVE TomlItems(_)
TomlItems(texts) ==
  IF texts = <<>> THEN <<>>
  ELSE TomlString(Head(texts))
       \o (IF Tail(texts) = <<>> THEN <<>> ELSE <<",">>)
       \o TomlItems(Tail(texts))

TomlArray(texts) == <<"[">> \o TomlItems(texts) \o <<"]">>

TomlBool(b) == IF b THEN <<"true">> ELSE <<"false">>

\* toml::to_string(&config): one `key = value` line per field of the struct,
\* in the order of the struct's fields.
TomlToString(c) ==
  << <<"repos_dir", TomlString(c.repos_dir)>>,
     <<"profiles", TomlArray(c.profiles)>>,
     <<"setup_database", TomlBool(c.setup_database)>>,
     <<"su_password", TomlString(c.su_password)>>,
     <<"password", TomlString(c.password)>> >>

\* Reading a TOML basic string that opens at toks[at]: its text, and the
\* position after its closing quote.
RECURSIVE TomlReadString(_, _, _)
TomlReadString(toks, at, acc) ==
  IF at > Len(toks) THEN [text |-> acc, next |-> at]
  ELSE IF toks[at] = Quote THEN [text |-> acc, next |-> at + 1]
  ELSE IF toks[at] = Backslash /\ at < Len(toks)
       THEN TomlReadString(toks, at + 2, Append(acc, toks[at + 1]))
  ELSE TomlReadString(toks, at + 1, Append(acc, toks[at]))

RECURSIVE TomlReadItems(_, _, _)
TomlReadItems(toks, at, acc) ==
  IF at > Len(toks) \/ toks[at] = "]" THEN acc
  ELSE IF toks[at] = "," THEN TomlReadItems(toks, at + 1, acc)
  ELSE LET item == TomlReadString(toks, at + 1, <<>>)
       IN TomlReadItems(toks, item.next, Append(acc, item.text))

TomlValue(toks) ==
  IF Head(toks) = Quote THEN TomlReadString(toks, 2, <<>>).text
  ELSE IF Head(toks) = "[" THEN TomlReadItems(toks, 2, <<>>)
  ELSE Head(toks) = "true"

\* toml::from_str::<Config>(&contents): the table of the keys in the text.
TomlFromStr(contents) ==
  [ key \in { contents[k][1] : k \in 1..Len(contents) } |->
      TomlValue(contents[CHOOSE k \in 1..Len(contents) : contents[k][1] = key][2]) ]

\* Mutant of WriteConfig: the result of std::fs::write is dropped instead of
\* returned with `?`.
WriteConfigIgnoringError ==
  /\ pc = "config"
  /\ config' = MakeConfig(repos_dir, Profiles(services), setup_database,
                          su_password, password)
  /\ \E writeOk \in BOOLEAN, termOk \in BOOLEAN :
       /\ file' = IF writeOk THEN TomlToString(config') ELSE file
       /\ IF termOk THEN Goto("clone") ELSE Return("Err", "terminal")
  /\ UNCHANGED << home, prompted, pipeline >>

\* Lines 141-152: the Config is built, serialised and written; a failed write
\* returns the error (`?`), and so does a failed log::success.
WriteConfig ==
  /\ pc = "config"
  /\ config' = MakeConfig(repos_dir, Profiles(services), setup_database,
                          su_password, password)
  /\ \E writeOk \in BOOLEAN, termOk \in BOOLEAN :
       IF ~writeOk
       THEN /\ Return("Err", "write")
            /\ UNCHANGED file
       ELSE /\ file' = TomlToString(config')
            /\ IF termOk THEN Goto("clone") ELSE Return("Err", "terminal")
  /\ UNCHANGED << home, prompted, pipeline >>

\* format!("https://github.com/{}.git", repo) and
\* format!("{}/{}", config.repos_dir, repo)
CloneCall(repo) ==
  [ program |-> "git2::Repository::clone",
    args |-> << <<"https://github.com/", repo, ".git">>,
                config.repos_dir \o <<"/", repo>> >> ]

\* Mutant of CloneLoopNext: the loop is left one repository early.
CloneLoopNextEarly(k) ==
  IF k + 1 < Len(LICHESS_REPOS) THEN "clone" ELSE "submodule"

\* for repo in LICHESS_REPOS.iter(): after k iterations, the next position.
CloneLoopNext(k) ==
  IF k < Len(LICHESS_REPOS) THEN "clone" ELSE "submodule"

\* One iteration of the clone loop: the result of the clone is dropped with
\* .ok() and the spinner stops on "Cloned {repo}" either way.
CloneRepo ==
  /\ pc = "clone"
  /\ i < Len(LICHESS_REPOS)
  /\ LET repo == LICHESS_REPOS[i + 1] IN
       \E r \in CloneResults :
         /\ calls' = Append(calls, CloneCall(repo))
         /\ lilaClone' = IF repo = "lichess-org/lila" THEN r ELSE lilaClone
         /\ lastOutcome' = r
         /\ lastVerdict' = "success"
         /\ failed' = IF r = "clone_err" THEN failed \cup {"clone"} ELSE failed
  /\ i' = i + 1
  /\ Goto(CloneLoopNext(i + 1))
  /\ UNCHANGED << home, prompted, config, file >>

\* match command.status() { Ok(_) => log::success(..)?, Err(_) => log::error(..)? }
Verdict(status) ==
  IF status = "spawn_err" THEN "error" ELSE "success"

\* Mutant of CommandStep: the failure of the command is returned (`?`)
\* instead of logged.
CommandStepPropagating(here, next, step, call) ==
  /\ pc = here
  /\ \E infoOk \in BOOLEAN, status \in StatusResults, verdictOk \in BOOLEAN :
       IF ~infoOk
       THEN /\ Return("Err", "terminal")
            /\ UNCHANGED pipeline
       ELSE /\ calls' = Append(calls, call)
            /\ lastOutcome' = status
            /\ failed' = IF status = "exit_zero" THEN failed ELSE failed \cup {step}
            /\ lastVerdict' = IF verdictOk /\ status = "exit_zero" THEN "success" ELSE "none"
            /\ IF status # "exit_zero" THEN Return("Err", "step")
               ELSE IF ~verdictOk THEN Return("Err", "terminal")
               ELSE IF next = "done" THEN Return("Ok", "none")
               ELSE Goto(next)
            /\ UNCHANGED << i, lilaClone >>
  /\ UNCHANGED << home, prompted, config, file >>

\* log::info(..)?; then the command is run and its verdict logged; a failed
\* terminal write returns its error.
CommandStep(here, next, step, call) ==
  /\ pc = here
  /\ \E infoOk \in BOOLEAN, status \in StatusResults, verdictOk \in BOOLEAN :
       IF ~infoOk
       THEN /\ Return("Err", "terminal")
            /\ UNCHANGED pipeline
       ELSE /\ calls' = Append(calls, call)
            /\ lastOutcome' = status
            /\ failed' = IF status = "exit_zero" THEN failed ELSE failed \cup {step}
            /\ lastVerdict' = IF verdictOk THEN Verdict(status) ELSE "none"
            /\ IF ~verdictOk THEN Return("Err", "terminal")
               ELSE IF next = "done" THEN Return("Ok", "none")
               ELSE Goto(next)
            /\ UNCHANGED << i, lilaClone >>
  /\ UNCHANGED << home, prompted, config, file >>

\* git -C {repos_dir}/lichess-org/lila submodule update --init
SubmoduleCall ==
  [ program |-> "git",
    args |-> << "-C", config.repos_dir \o <<"/", "lichess-org/lila">>,
                "submodule", "update", "--init" >> ]

\* Mutant of InitSubmodules: the command is run only after a successful clone
\* of lichess-org/lila.
InitSubmodulesIfCloned ==
  IF lilaClone = "clone_ok"
  THEN CommandStep("submodule", "build", "submodule", SubmoduleCall)
  ELSE /\ pc = "submodule"
       /\ Goto("build")
       /\ UNCHANGED << home, prompted, config, file, pipeline >>

InitSubmodules ==
  CommandStep("submodule", "build", "submodule", SubmoduleCall)

\* Mutant of ProfileFlags: only the first profile gets its flag.
ProfileFlagsFirstOnly(profiles) ==
  IF profiles = <<>> THEN <<>> ELSE <<"--profile", Head(profiles)>>

\* for profile in profiles.iter() { compose.arg("--profile").arg(profile); }
RECURSIVE ProfileFlags(_)
ProfileFlags(profiles) ==
  IF profiles = <<>> THEN <<>>
  ELSE <<"--profile", Head(profiles)>> \o ProfileFlags(Tail(profiles))

\* docker compose [--profile p]* build
ComposeBuildCall ==
  [ program |-> "docker",
    args |-> <<"compose">> \o ProfileFlags(Profiles(services)) \o <<"build">> ]

BuildImages ==
  CommandStep("build", "ui", "build", ComposeBuildCall)

\* docker compose run --rm ui bash -c /lila/ui/build
UiBuildCall ==
  [ program |-> "docker",
    args |-> <<"compose", "run", "--rm", "ui", "bash", "-c", "/lila/ui/build">> ]

\* The last step; start() then returns Ok(()) and so does main.
CompileUi ==
  CommandStep("ui", "done", "ui", UiBuildCall)

Next ==
  \/ Main
  \/ Intro
  \/ PromptServices
  \/ ConfirmSeed
  \/ ChoosePasswords
  \/ PromptReposDir
  \/ WriteConfig
  \/ CloneRepo
  \/ InitSubmodules
  \/ BuildImages
  \/ CompileUi

Spec == Init /\ [][Next]_vars

----------------------------------------------------------------------------
(* Vocabulary of the properties. *)

\* The step an external call belongs to, read off its command line.
StepOf(call) ==
  CASE call.program = "git2::Repository::clone" -> "clone"
    [] call.program = "git" -> "submodule"
    [] call.program = "docker" /\ call.args[Len(call.args)] = "build" -> "build"
    [] call.program = "docker" /\ "run" \in Range(call.args)
         /\ "ui" \in Range(call.args) -> "ui"
    [] call.program = "docker" /\ "up" \in Range(call.args) -> "up"
    [] OTHER -> "other"

CallsOf(step) == { k \in 1..Len(calls) : StepOf(calls[k]) = step }
Attempted == { StepOf(calls[k]) : k \in 1..Len(calls) }

\* start() built its Config (a built Config has a repos_dir).
Built == config.repos_dir # EmptyString
\* ~/.lila-docker was written in this run.
Persisted == file # <<>>
\* main has returned.
Done == pc = "done"
\* start() ran to its last line and returned Ok(()).
Completed == Done /\ result = "Ok" /\ Built

StepRank == [clone |-> 1, submodule |-> 2, build |-> 3, ui |-> 4, up |-> 5, other |-> 6]

\* The canonical name (Repository's to_string) of each entry of LICHESS_REPOS.
CanonicalOf(path) ==
  CASE path = "lichess-org/lila" -> "lila"
    [] path = "lichess-org/lila-ws" -> "lila-ws"
    [] path = "lichess-org/lila-db-seed" -> "lila-db-seed"
    [] path = "lichess-org/lila-engine" -> "lila-engine"
    [] path = "lichess-org/lila-fishnet" -> "lila-fishnet"
    [] path = "lichess-org/lila-gif" -> "lila-gif"
    [] path = "lichess-org/lila-search" -> "lila-search"
    [] path = "lichess-org/lifat" -> "lifat"
    [] path = "lichess-org/scalachess" -> "scalachess"
    [] path = "lichess-org/api" -> "api"
    [] path = "lichess-org/pgn-viewer" -> "pgn-viewer"
    [] path = "lichess-org/chessground" -> "chessground"
    [] path = "lichess-org/berserk" -> "berserk"
    [] OTHER -> path

\* The values that follow a --profile flag in a docker command line.
FlagValues(args) ==
  { args[k + 1] : k \in { j \in 1..(Len(args) - 1) : args[j] = "--profile" } }
FlagCount(args) ==
  Cardinality({ j \in 1..Len(args) : args[j] = "--profile" })

\* The canonical profile names of the selected services that have a profile.
SelectedProfileNames ==
  { ComposeProfileDisplay[services[k].compose_profile[1]] :
      k \in { j \in 1..Len(services) : services[j].compose_profile # <<>> } }

----------------------------------------------------------------------------
(* C1: a run of `start` that completes has attempted all six canonical     *)
(* steps: clone, submodule init, image build, asset compile, service       *)
(* start (`up -d`) and, when setup_database is true, database seeding.     *)
C1_CompletedAfterSixSteps ==
  Completed =>
    /\ {"clone", "submodule", "build", "ui", "up"} \subseteq Attempted
    /\ (config.setup_database => "other" \in Attempted)

(* C2: the failure of an external step (a clone error, a command that      *)
(* cannot be spawned or exits non-zero) never aborts the pipeline: for     *)
(* every set of failed steps the later steps are still attempted and       *)
(* start returns Ok.  A run ends early only on a failed terminal write.    *)
C2_StepFailureNeverAborts ==
  /\ (Done /\ Persisted /\ cause # "terminal") => (result = "Ok" /\ Attempted = Steps)
  /\ \A s \in failed :
       (Done /\ cause # "terminal") =>
         { t \in Steps : StepRank[t] > StepRank[s] } \subseteq Attempted
  /\ (result = "Err" => cause \in {"terminal", "prompt", "write"})

\* Witness of C2: all four steps failed and start still returned Ok.
C2_AllStepsFailedYetCompleted ==
  Completed /\ failed = Steps

(* C3: the verdict shown for a step matches the outcome of its external    *)
(* call: success if and only if the command exited with status zero (for   *)
(* a clone: the clone returned Ok).                                        *)
C3_VerdictMatchesOutcome ==
  lastVerdict # "none" =>
    (lastVerdict = "success" <=> lastOutcome \in {"exit_zero", "clone_ok"})

(* C4 as stated: the submodule command is run only in runs where the clone *)
(* of lichess-org/lila succeeded.                                          *)
C4_SubmoduleOnlyAfterSuccessfulClone ==
  "submodule" \in Attempted => lilaClone = "clone_ok"

(* C4 as amended: the submodule command is never run before the clone of   *)
(* lichess-org/lila has been attempted, and it is run in every run that    *)
(* gets past the clone loop and its log line, whether that clone           *)
(* succeeded or failed.                                                    *)
C4_SubmoduleAfterCloneAttempt ==
  /\ "submodule" \in Attempted => lilaClone \in CloneResults
  /\ (pc \in {"build", "ui"} \/ Completed) => "submodule" \in Attempted

\* Witness of C4: the submodule command ran after a failed clone of lila.
C4_SubmoduleAfterFailedClone ==
  "submodule" \in Attempted /\ lilaClone = "clone_err"

(* C5: step 1 issues exactly one clone call per repository of the          *)
(* Configuration's repos set (the repositories of the selected services)   *)
(* and none for any other repository; an empty selection clones nothing.   *)
C5_ClonesExactlySelectedRepos ==
  pc \in {"submodule", "build", "ui"} =>
    /\ { CanonicalOf(calls[k].args[1][2]) : k \in CallsOf("clone") }
         = ConfigurationRepos(services)
    /\ Cardinality(CallsOf("clone")) = Cardinality(ConfigurationRepos(services))

(* C6: in every Config that start builds and persists, setup_database =    *)
(* false implies su_password = "" and password = "", and with              *)
(* setup_database = true a password prompt left empty yields "password".   *)
C6_PasswordsFollowSetupDatabase ==
  /\ Built =>
       /\ ~config.setup_database =>
            (config.su_password = EmptyString /\ config.password = EmptyString)
       /\ (config.setup_database /\ typedSu = EmptyString) =>
            config.su_password = Str("password")
       /\ (config.setup_database /\ typedPw = EmptyString) =>
            config.password = Str("password")
  /\ Persisted =>
       LET stored == TomlFromStr(file) IN
         /\ stored.setup_database = config.setup_database
         /\ ~stored.setup_database =>
              (stored.su_password = EmptyString /\ stored.password = EmptyString)

\* Witness of C6: a Config without seeding was written to the file.
C6_PersistedWithoutSeeding ==
  Persisted /\ ~config.setup_database /\ config.su_password = EmptyString
    /\ config.password = EmptyString

C8_WriteBeforeStepsAndFatal ==
  /\ calls # <<>> => Persisted
  /\ ~Persisted => pc # "clone"
  /\ cause = "write" => (Done /\ result = "Err" /\ ~Persisted /\ calls = <<>>)

\* Witness of C8: the write of the file failed.
C8_WriteFailed ==
  Done /\ cause = "write" /\ result = "Err" /\ Built

(* C9: loading the saved file reproduces the Configuration field for       *)
(* field: repos_dir, repos, profiles, setup_database, su_password,         *)
(* password.                                                               *)
C9_SaveLoadRoundTrip ==
  Persisted =>
    LET loaded == TomlFromStr(file) IN
      /\ DOMAIN loaded = {"repos_dir", "repos", "profiles", "setup_database",
                          "su_password", "password"}
      /\ loaded.repos_dir = repos_dir
      /\ Range(loaded.repos) = { Str(n) : n \in ConfigurationRepos(services) }
      /\ Range(loaded.profiles) = { Str(n) : n \in SelectedProfileNames }
      /\ loaded.setup_database = setup_database
      /\ loaded.su_password = su_password
      /\ loaded.password = password

(* C10: the steps of a run execute one after the other in the order clone, *)
(* submodule init, image build, asset compile: no call of a later step     *)
(* comes before a call of an earlier one (each call is followed only by    *)
(* calls of its own or a later step), each command step runs once, and the *)
(* submodule command is not run before every clone of the loop returned.   *)
C10_StepsInCanonicalOrder ==
  /\ \A k \in 1..(Len(calls) - 1) :
       StepRank[StepOf(calls[k])] <= StepRank[StepOf(calls[k + 1])]
  /\ \A s \in {"submodule", "build", "ui"} : Cardinality(CallsOf(s)) <= 1
  /\ Attempted \cap {"submodule", "build", "ui"} # {} =>
       /\ Cardinality(CallsOf("clone")) = Len(LICHESS_REPOS)
       /\ i = Len(LICHESS_REPOS)
  /\ \A k \in CallsOf("clone") : calls[k].args[1][2] = LICHESS_REPOS[k]
  /\ Len(calls) <= Len(LICHESS_REPOS) + 3

\* Witness of C10: a run made all its calls, thirteen clones and three commands.
C10_AllFourStepsRan ==
  Completed /\ Len(calls) = Len(LICHESS_REPOS) + 3

====
